---- MODULE Spec2Model ----
(***************************************************************************)
(* A model of git_analytics.get_commit_log (src/git_analytics.py).         *)
(*                                                                         *)
(* Text is modelled at character level: a Python str is a sequence of      *)
(* one-character strings, so that split, strip, replace, splitlines,       *)
(* fromisoformat and strftime are computed, not assumed.  A datetime is a  *)
(* record of its wall-clock fields and its UTC offset in minutes.          *)
(*                                                                         *)
(* Input domain: the text git prints is any sequence of at most MaxLines   *)
(* lines of SampleLines.  Dates lie in 2023..2024 and carry an offset, as  *)
(* --date=iso-strict prints them; the US daylight-saving rule in force     *)
(* since 2007 is the one modelled for America/Los_Angeles.                 *)
(***************************************************************************)
EXTENDS Integers, Sequences, FiniteSets, TLC

\* The largest number of lines in the text git prints.
MaxLines == 3

\* Python values of several types are records, so that any two compare.
None == [type |-> "NoneType"]

List(items) == [type |-> "list", items |-> items]

ValueError == [exc |-> "ValueError"]

----------------------------------------------------------------------------
(* Characters and Python str operations                                    *)

Digits == <<"0", "1", "2", "3", "4", "5", "6", "7", "8", "9">>

IsDigit(c) == c \in {"0", "1", "2", "3", "4", "5", "6", "7", "8", "9"}

DigitVal(c) == (CHOOSE k \in 1..10 : Digits[k] = c) - 1

\* The code points of the characters the modelled text is made of; str
\* comparison (the sort key, sorted()) orders by code point.
Ord(c) ==
    CASE c = "\n" -> 10
      [] c = " " -> 32
      [] c = "+" -> 43
      [] c = "-" -> 45
      [] c = ":" -> 58
      [] c = "@" -> 64
      [] c = "T" -> 84
      [] c = "Z" -> 90
      [] c = "|" -> 124
      [] IsDigit(c) -> 48 + DigitVal(c)
      [] c = "a" -> 97
      [] c = "b" -> 98
      [] c = "d" -> 100
      [] c = "e" -> 101
      [] c = "f" -> 102
      [] c = "i" -> 105
      [] c = "l" -> 108
      [] c = "n" -> 110
      [] c = "o" -> 111
      [] c = "p" -> 112
      [] c = "q" -> 113
      [] c = "t" -> 116
      [] c = "v" -> 118
      [] c = "x" -> 120
      [] c = "y" -> 121

\* str < str: lexicographic by code point, a proper prefix is smaller.
RECURSIVE StrLess(_, _)
StrLess(s, t) ==
    IF t = <<>> THEN FALSE
    ELSE IF s = <<>> THEN TRUE
    ELSE IF s[1] = t[1] THEN StrLess(Tail(s), Tail(t))
    ELSE Ord(s[1]) < Ord(t[1])

IsSpace(c) == c \in {" ", "\n"}

\* str.strip(): leading and trailing whitespace removed.
RECURSIVE LStrip(_)
LStrip(s) == IF s # <<>> /\ IsSpace(s[1]) THEN LStrip(Tail(s)) ELSE s

RECURSIVE RStrip(_)
RStrip(s) ==
    IF s # <<>> /\ IsSpace(s[Len(s)]) THEN RStrip(SubSeq(s, 1, Len(s) - 1)) ELSE s

Strip(s) == RStrip(LStrip(s))

\* The index of the first occurrence of c in s, 0 when there is none.
Find(s, c) ==
    LET at == {k \in 1..Len(s) : s[k] = c}
    IN  IF at = {} THEN 0 ELSE CHOOSE k \in at : \A j \in at : k <= j

\* str.split(sep, maxsplit): at most maxsplit splits, the rest kept whole;
\* maxsplit = -1 splits at every occurrence.
RECURSIVE Split(_, _, _)
Split(s, sep, maxsplit) ==
    LET k == Find(s, sep)
    IN  IF maxsplit = 0 \/ k = 0 THEN <<s>>
        ELSE <<SubSeq(s, 1, k - 1)>>
             \o Split(SubSeq(s, k + 1, Len(s)), sep, maxsplit - 1)

\* str.splitlines(): lines end at a line break; a text that ends with a line
\* break has no empty last line.
RECURSIVE splitlines(_)
splitlines(s) ==
    LET k == Find(s, "\n")
    IN  IF s = <<>> THEN <<>>
        ELSE IF k = 0 THEN <<s>>
        ELSE <<SubSeq(s, 1, k - 1)>> \o splitlines(SubSeq(s, k + 1, Len(s)))

\* date_str.replace('Z', '+00:00'): every Z replaced.
RECURSIVE ReplaceZ(_)
ReplaceZ(s) ==
    IF s = <<>> THEN <<>>
    ELSE (IF s[1] = "Z" THEN <<"+", "0", "0", ":", "0", "0">> ELSE <<s[1]>>)
         \o ReplaceZ(Tail(s))

----------------------------------------------------------------------------
(* Calendar arithmetic of datetime                                         *)

IsLeap(y) == (y % 4 = 0 /\ y % 100 # 0) \/ y % 400 = 0

DaysInMonth(y, m) ==
    IF m = 2 THEN (IF IsLeap(y) THEN 29 ELSE 28)
    ELSE IF m \in {4, 6, 9, 11} THEN 30 ELSE 31

\* Days from 1970-01-01 to the civil date y-m-d (proleptic Gregorian).
DaysFromCivil(y, m, d) ==
    LET yy  == IF m <= 2 THEN y - 1 ELSE y
        era == yy \div 400
        yoe == yy - era * 400
        mp  == IF m > 2 THEN m - 3 ELSE m + 9
        doy == (153 * mp + 2) \div 5 + d - 1
        doe == yoe * 365 + yoe \div 4 - yoe \div 100 + doy
    IN  era * 146097 + doe - 719468

\* The civil date of a day number.
CivilFromDays(z) ==
    LET zz  == z + 719468
        era == zz \div 146097
        doe == zz - era * 146097
        yoe == (doe - doe \div 1460 + doe \div 36524 - doe \div 146096) \div 365
        doy == doe - (365 * yoe + yoe \div 4 - yoe \div 100)
        mp  == (5 * doy + 2) \div 153
        d   == doy - (153 * mp + 2) \div 5 + 1
        m   == IF mp < 10 THEN mp + 3 ELSE mp - 9
        y   == yoe + era * 400
    IN  [year |-> IF m <= 2 THEN y + 1 ELSE y, month |-> m, day |-> d]

\* date.weekday(): Monday is 0, Sunday is 6 (1970-01-01 was a Thursday).
WeekdayOfDays(z) == (z + 3) % 7

Num2(s, k) == DigitVal(s[k]) * 10 + DigitVal(s[k + 1])

Num4(s, k) == Num2(s, k) * 100 + Num2(s, k + 2)

AllDigits(s, ks) == \A k \in ks : IsDigit(s[k])

----------------------------------------------------------------------------
(* datetime: parsing, conversion to US Pacific time, formatting            *)

\* datetime.fromisoformat(s) for the layout YYYY-MM-DDTHH:MM:SS+HH:MM, the
\* one iso-strict dates have once Z is replaced; any other text in the
\* modelled input (a word, a padded date, a missing offset field) and any
\* field out of range raises ValueError.
fromisoformat(s) ==
    IF Len(s) # 25 THEN ValueError
    ELSE IF ~ ( /\ AllDigits(s, {1, 2, 3, 4, 6, 7, 9, 10, 12, 13, 15, 16,
                                 18, 19, 21, 22, 24, 25})
                /\ s[5] = "-" /\ s[8] = "-"
                /\ s[14] = ":" /\ s[17] = ":" /\ s[23] = ":"
                /\ s[20] \in {"+", "-"} )
    THEN ValueError
    ELSE LET y  == Num4(s, 1)
             m  == Num2(s, 6)
             d  == Num2(s, 9)
             hh == Num2(s, 12)
             mi == Num2(s, 15)
             ss == Num2(s, 18)
             oh == Num2(s, 21)
             om == Num2(s, 24)
             sg == IF s[20] = "-" THEN -1 ELSE 1
         IN  IF /\ y >= 1 /\ m \in 1..12
                /\ d >= 1 /\ d <= DaysInMonth(y, m)
                /\ hh < 24 /\ mi < 60 /\ ss < 60 /\ oh < 24 /\ om < 60
             THEN [year |-> y, month |-> m, day |-> d, hour |-> hh,
                   minute |-> mi, second |-> ss,
                   utcoffset |-> sg * (oh * 60 + om), tzname |-> "UTC"]
             ELSE ValueError

\* The instant of an aware datetime, in seconds since 1970-01-01T00:00:00Z.
Timestamp(dt) ==
    (DaysFromCivil(dt.year, dt.month, dt.day) * 1440
        + dt.hour * 60 + dt.minute - dt.utcoffset) * 60 + dt.second

\* The day of month of the n-th Sunday of month m of year y.
NthSunday(y, m, n) ==
    CHOOSE d \in (7 * n - 6)..(7 * n) : WeekdayOfDays(DaysFromCivil(y, m, d)) = 6

\* America/Los_Angeles: daylight time from 02:00 PST (10:00 UTC) on the
\* second Sunday of March to 02:00 PDT (09:00 UTC) on the first Sunday of
\* November; the offset from UTC is -7 h then and -8 h otherwise.
IsPacificDaylight(ts) ==
    LET y     == CivilFromDays(ts \div 86400).year
        start == DaysFromCivil(y, 3, NthSunday(y, 3, 2)) * 86400 + 10 * 3600
        end   == DaysFromCivil(y, 11, NthSunday(y, 11, 1)) * 86400 + 9 * 3600
    IN  start <= ts /\ ts < end

PacificOffset(ts) == IF IsPacificDaylight(ts) THEN -420 ELSE -480

\* The datetime with wall clock at offset off (minutes) of the instant ts.
FromTimestamp(ts, off, name) ==
    LET loc == ts + off * 60
        c   == CivilFromDays(loc \div 86400)
        sod == loc % 86400
    IN  [year |-> c.year, month |-> c.month, day |-> c.day,
         hour |-> sod \div 3600, minute |-> (sod % 3600) \div 60,
         second |-> (sod % 60), utcoffset |-> off, tzname |-> name]

\* A conversion that leaves the time in UTC.
astimezone_utc(dt) == FromTimestamp(Timestamp(dt), 0, "UTC")

\* utc_time.astimezone(pst): the same instant on the Pacific wall clock.
astimezone(dt) ==
    LET ts == Timestamp(dt)
    IN  FromTimestamp(ts, PacificOffset(ts),
                      IF IsPacificDaylight(ts) THEN "PDT" ELSE "PST")

D2(n) == <<Digits[(n \div 10) + 1], Digits[(n % 10) + 1]>>

D4(n) == D2(n \div 100) \o D2(n % 100)

\* commit_date.strftime('%Y-%m-%d')
strftime_Ymd(dt) == D4(dt.year) \o <<"-">> \o D2(dt.month) \o <<"-">> \o D2(dt.day)

\* datetime.weekday()
weekday(dt) == WeekdayOfDays(DaysFromCivil(dt.year, dt.month, dt.day))

DayNames ==
    <<"Monday", "Tuesday", "Wednesday", "Thursday", "Friday", "Saturday", "Sunday">>

\* pst_time.strftime('%A, %Y-%m-%d %I:%M:%S %p %Z'), field by field.
strftime_report(dt) ==
    [A   |-> DayNames[weekday(dt) + 1],
     Ymd |-> strftime_Ymd(dt),
     IMS |-> D2(IF dt.hour % 12 = 0 THEN 12 ELSE dt.hour % 12)
             \o <<":">> \o D2(dt.minute) \o <<":">> \o D2(dt.second),
     p   |-> IF dt.hour < 12 THEN "AM" ELSE "PM",
     Z   |-> dt.tzname]

\* datetime.strptime(date, "%Y-%m-%d").weekday() for a key of commits_per_day.
strptime_weekday(date) ==
    WeekdayOfDays(DaysFromCivil(Num4(date, 1), Num2(date, 6), Num2(date, 9)))

----------------------------------------------------------------------------
(* The text git prints                                                     *)

\* b@x|2024-01-15T20:00:00Z|fix : Monday 2024-01-15 12:00:00 PST
LnJan15 ==
    <<"b", "@", "x", "|", "2", "0", "2", "4", "-", "0", "1", "-", "1", "5",
      "T", "2", "0", ":", "0", "0", ":", "0", "0", "Z", "|", "f", "i", "x">>

\* a@x|2024-07-15T20:00:00Z|add : Monday 2024-07-15 13:00:00 PDT
LnJul15 ==
    <<"a", "@", "x", "|", "2", "0", "2", "4", "-", "0", "7", "-", "1", "5",
      "T", "2", "0", ":", "0", "0", ":", "0", "0", "Z", "|", "a", "d", "d">>

\* a@x|2024-01-01T03:00:00Z|x|y : Sunday 2023-12-31 19:00:00 PST; the subject
\* holds a delimiter
LnNewYear ==
    <<"a", "@", "x", "|", "2", "0", "2", "4", "-", "0", "1", "-", "0", "1",
      "T", "0", "3", ":", "0", "0", ":", "0", "0", "Z", "|", "x", "|", "y">>

\* b@x|2024-01-15T12:00:00-08:00|opt : the committer and instant of LnJan15,
\* another subject
LnJan15Again ==
    <<"b", "@", "x", "|", "2", "0", "2", "4", "-", "0", "1", "-", "1", "5",
      "T", "1", "2", ":", "0", "0", ":", "0", "0", "-", "0", "8", ":", "0",
      "0", "|", "o", "p", "t">>

\* a@x|2024-11-03T09:10:00Z|a : Sunday 2024-11-03 01:10:00 PST, after the
\* clocks went back
LnAfterFallBack ==
    <<"a", "@", "x", "|", "2", "0", "2", "4", "-", "1", "1", "-", "0", "3",
      "T", "0", "9", ":", "1", "0", ":", "0", "0", "Z", "|", "a">>

\* a@x|2024-11-03T08:30:00Z|b : Sunday 2024-11-03 01:30:00 PDT, before the
\* clocks went back
LnBeforeFallBack ==
    <<"a", "@", "x", "|", "2", "0", "2", "4", "-", "1", "1", "-", "0", "3",
      "T", "0", "8", ":", "3", "0", ":", "0", "0", "Z", "|", "b">>

\* ' a@x |2024-01-14T05:00:00+09:00| v ' : Saturday 2024-01-13 12:00:00 PST;
\* the email and the subject are padded with spaces
LnPadded ==
    <<" ", "a", "@", "x", " ", "|", "2", "0", "2", "4", "-", "0", "1", "-",
      "1", "4", "T", "0", "5", ":", "0", "0", ":", "0", "0", "+", "0", "9",
      ":", "0", "0", "|", " ", "v", " ">>

\* not-a-valid-line : no delimiter
LnNoDelimiter ==
    <<"n", "o", "t", "-", "a", "-", "v", "a", "l", "i", "d", "-", "l", "i",
      "n", "e">>

\* a@x|today|t : the date field is no ISO-8601 date
LnBadDate ==
    <<"a", "@", "x", "|", "t", "o", "d", "a", "y", "|", "t">>

\* a line of one space
LnBlank ==
    <<" ">>

\* The lines the modelled git log output is made of.
SampleLines ==
    { LnJan15, LnJul15, LnNewYear, LnJan15Again,
      LnAfterFallBack, LnBeforeFallBack, LnPadded, LnNoDelimiter,
      LnBadDate, LnBlank }

\* lines joined by line breaks, as --pretty=format: separates commits.
RECURSIVE JoinLines(_)
JoinLines(ls) ==
    IF ls = <<>> THEN <<>>
    ELSE IF Len(ls) = 1 THEN ls[1]
    ELSE ls[1] \o <<"\n">> \o JoinLines(Tail(ls))

\* Every text git may print: at most MaxLines lines of SampleLines.
GitOutputs ==
    { JoinLines(ls) : ls \in UNION { [1..n -> SampleLines] : n \in 0..MaxLines } }

----------------------------------------------------------------------------
(* The steps of get_commit_log                                             *)

\* A split without the bound: line.split('|')
SplitFields_unbounded(line) == Split(line, "|", -1)

\* A split at every delimiter of which the first three fields are kept.
SplitFields_truncate(line) ==
    LET all == Split(line, "|", -1)
    IN  IF Len(all) > 3 THEN SubSeq(all, 1, 3) ELSE all

\* line.split('|', 2)
SplitFields(line) == Split(line, "|", 2)

\* The body of the try block for one line: the unpacking of the three
\* fields, the date parse and the conversion; raised is the exception that
\* leaves the block, value the tuple appended to parsed_commits.
TryParse(line) ==
    LET fields == SplitFields(line)
    IN  IF Len(fields) # 3 THEN [raised |-> ValueError]
        ELSE LET email    == fields[1]
                 date_str == fields[2]
                 title    == fields[3]
                 utc_time == fromisoformat(ReplaceZ(date_str))
             IN  IF utc_time = ValueError THEN [raised |-> ValueError]
                 ELSE [raised |-> None,
                       value  |-> <<Strip(email), astimezone(utc_time),
                                    Strip(title)>>]

\* A comparison of the wall clocks, whatever the offsets.
datetime_lt_wall_clock(a, b) ==
    Timestamp([a EXCEPT !.utcoffset = 0]) < Timestamp([b EXCEPT !.utcoffset = 0])

\* x < y for two aware datetimes: by instant.
datetime_lt(a, b) == Timestamp(a) < Timestamp(b)

\* key(x) < key(y) for the sort key (x[0], x[1]): the tuples are compared at
\* their first differing component.
key_lt(x, y) ==
    IF x[1] # y[1] THEN StrLess(x[1], y[1]) ELSE datetime_lt(x[2], y[2])

\* One step of a stable sort: x, which follows the elements of the sorted
\* list s in the input, goes before the first element greater than it.
RECURSIVE InsertStable(_, _)
InsertStable(s, x) ==
    IF s = <<>> THEN <<x>>
    ELSE IF key_lt(x, s[1]) THEN <<x>> \o s
    ELSE <<s[1]>> \o InsertStable(Tail(s), x)

\* list.sort(key=...): the stable sort by key.
RECURSIVE sort(_)
sort(s) ==
    IF s = <<>> THEN <<>>
    ELSE InsertStable(sort(SubSeq(s, 1, Len(s) - 1)), s[Len(s)])

\* sorted(keys) for a set of str.
RECURSIVE sorted(_)
sorted(S) ==
    IF S = {} THEN <<>>
    ELSE LET m == CHOOSE x \in S : \A y \in S \ {x} : StrLess(x, y)
         IN  <<m>> \o sorted(S \ {m})

EmptyDict == [k \in {} |-> 0]

\* An assignment in place of the append: commits_by_email[email] = [item]
list_append_overwrite(d, email, item) ==
    [e \in DOMAIN d \cup {email} |-> IF e = email THEN <<item>> ELSE d[e]]

\* commits_by_email[email].append(item) on a defaultdict(list)
list_append(d, email, item) ==
    [e \in DOMAIN d \cup {email} |->
        IF e = email
        THEN Append(IF e \in DOMAIN d THEN d[e] ELSE <<>>, item)
        ELSE d[e]]

\* The loop that groups commits by email, run over the list cs from d.
RECURSIVE group_by_email(_, _)
group_by_email(d, cs) ==
    IF cs = <<>> THEN d
    ELSE group_by_email(list_append(d, cs[1][1], <<cs[1][2], cs[1][3]>>),
                        Tail(cs))

\* An assignment in place of the increment: commits_per_day[day] = 1
increment_assign(d, day) ==
    [k \in DOMAIN d \cup {day} |-> IF k = day THEN 1 ELSE d[k]]

\* commits_per_day[day] += 1 on a defaultdict(int)
increment(d, day) ==
    [k \in DOMAIN d \cup {day} |->
        IF k = day THEN (IF k \in DOMAIN d THEN d[k] ELSE 0) + 1 ELSE d[k]]

\* The loop that counts commits per day, run over the list cs from d.
RECURSIVE count_per_day(_, _)
count_per_day(d, cs) ==
    IF cs = <<>> THEN d
    ELSE count_per_day(increment(d, strftime_Ymd(cs[1][2])), Tail(cs))

\* sum(values) of a dict of int
RECURSIVE sum_values(_)
sum_values(d) ==
    IF DOMAIN d = {} THEN 0
    ELSE LET k == CHOOSE k \in DOMAIN d : TRUE
         IN  d[k] + sum_values([j \in DOMAIN d \ {k} |-> d[j]])

\* a / b if b else 0, as an exact fraction.
average(a, b) == IF b # 0 THEN [num |-> a, den |-> b] ELSE [num |-> 0, den |-> 1]

\* The lines print writes for one committer: the header, then one line per
\* commit.
RECURSIVE commit_lines(_)
commit_lines(commits) ==
    IF commits = <<>> THEN <<>>
    ELSE <<[kind |-> "commit", when |-> strftime_report(commits[1][1]),
            title |-> commits[1][2]]>>
         \o commit_lines(Tail(commits))

RECURSIVE committer_blocks(_, _)
committer_blocks(d, emails) ==
    IF emails = <<>> THEN <<>>
    ELSE <<[kind |-> "committer", email |-> emails[1],
            count |-> Len(d[emails[1]])]>>
         \o commit_lines(d[emails[1]])
         \o committer_blocks(d, Tail(emails))

\* total_commits after the loop over the committers.
RECURSIVE total_of(_, _)
total_of(d, emails) ==
    IF emails = <<>> THEN 0
    ELSE Len(d[emails[1]]) + total_of(d, Tail(emails))

RECURSIVE day_lines(_, _)
day_lines(d, days) ==
    IF days = <<>> THEN <<>>
    ELSE <<[kind |-> "day", day |-> days[1], count |-> d[days[1]]]>>
         \o day_lines(d, Tail(days))

\* The decimal digits of a natural number.
RECURSIVE IntToStr(_)
IntToStr(n) ==
    IF n < 10 THEN <<Digits[n + 1]>> ELSE IntToStr(n \div 10) \o <<Digits[(n % 10) + 1]>>

\* f"{x:.2f}" for the fraction x: the nearest hundredth.  A fraction half
\* way between two hundredths goes to the even one; none of the averages of
\* at most five commits is half way.
format_2f(x) ==
    LET q == (x.num * 100) \div x.den
        r == (x.num * 100) % x.den
        h == IF 2 * r < x.den THEN q
             ELSE IF 2 * r > x.den THEN q + 1
             ELSE IF q % 2 = 0 THEN q ELSE q + 1
    IN  IntToStr(h \div 100) \o <<".">> \o D2(h % 100)

\* A clause that names IndexError alone.
except_catches_IndexError(e) == e.exc \in {"IndexError"}

\* except (ValueError, IndexError): whether the clause catches e.
except_catches(e) == e.exc \in {"ValueError", "IndexError"}

----------------------------------------------------------------------------
(* The state                                                               *)

VARIABLES
    pc,                \* the place of get_commit_log in its code
    path_exists,       \* os.path.exists(repo_path)
    has_git_dir,       \* os.path.exists(os.path.join(repo_path, '.git'))
    git_calls,         \* the number of git subprocesses spawned
    log_output,        \* the text check_output returned
    lines,             \* log_output.splitlines()
    i,                 \* the index in lines of the line the loop is at
    parsed_commits,
    commits_by_email,
    commits_per_day,
    total_commits,
    num_days,
    num_weekdays,
    avg_per_day,
    avg_per_weekday,
    stdout,            \* what print has written, in order
    result             \* the value returned; Unset before the return

vars ==
    <<pc, path_exists, has_git_dir, git_calls, log_output, lines, i,
      parsed_commits, commits_by_email, commits_per_day, total_commits,
      num_days, num_weekdays, avg_per_day, avg_per_weekday, stdout, result>>

Unset == [type |-> "unset"]

locals ==
    <<parsed_commits, commits_by_email, commits_per_day, total_commits,
      num_days, num_weekdays, avg_per_day, avg_per_weekday>>

env == <<path_exists, has_git_dir>>

\* A call of get_commit_log(repo_path): repo_path is missing, or is a
\* directory without .git, or is a directory with .git.
Init ==
    /\ pc = "start"
    /\ path_exists \in BOOLEAN
    /\ has_git_dir \in BOOLEAN
    /\ has_git_dir => path_exists
    /\ git_calls = 0
    /\ log_output = <<>>
    /\ lines = <<>>
    /\ i = 1
    /\ parsed_commits = <<>>
    /\ commits_by_email = EmptyDict
    /\ commits_per_day = EmptyDict
    /\ total_commits = 0
    /\ num_days = 0
    /\ num_weekdays = 0
    /\ avg_per_day = average(0, 0)
    /\ avg_per_weekday = average(0, 0)
    /\ stdout = <<>>
    /\ result = Unset

\* if not os.path.exists(repo_path): print the error, return None
CheckPath ==
    /\ pc = "start"
    /\ IF ~ path_exists
       THEN /\ stdout' = Append(stdout, [kind |-> "error", what |-> "path does not exist"])
            /\ result' = None
            /\ pc' = "done"
       ELSE /\ pc' = "check_git_dir"
            /\ UNCHANGED <<stdout, result>>
    /\ UNCHANGED <<env, git_calls, log_output, lines, i, locals>>

\* The check of .git without its return: git runs whatever the check found.
CheckGitDir_no_return ==
    /\ pc = "check_git_dir"
    /\ IF ~ has_git_dir
       THEN stdout' = Append(stdout, [kind |-> "error", what |-> "not a valid Git repository"])
       ELSE UNCHANGED stdout
    /\ pc' = "run_git"
    /\ UNCHANGED <<env, git_calls, log_output, lines, i, locals, result>>

\* if not os.path.exists(os.path.join(repo_path, '.git')): print, return None
CheckGitDir ==
    /\ pc = "check_git_dir"
    /\ IF ~ has_git_dir
       THEN /\ stdout' = Append(stdout, [kind |-> "error", what |-> "not a valid Git repository"])
            /\ result' = None
            /\ pc' = "done"
       ELSE /\ pc' = "run_git"
            /\ UNCHANGED <<stdout, result>>
    /\ UNCHANGED <<env, git_calls, log_output, lines, i, locals>>

\* subprocess.check_output([git log ...]) returns the text git printed.
RunGitOk ==
    /\ pc = "run_git"
    /\ git_calls' = git_calls + 1
    /\ \E text \in GitOutputs :
          /\ log_output' = text
          /\ lines' = splitlines(text)
    /\ i' = 1
    /\ pc' = "parse"
    /\ UNCHANGED <<env, locals, stdout, result>>

\* What the handler of CalledProcessError returns.
CalledProcessError_result == None

\* git exits non-zero: check_output raises CalledProcessError, which the
\* handler of the outer try prints before it returns None.
RunGitFails ==
    /\ pc = "run_git"
    /\ git_calls' = git_calls + 1
    /\ stdout' = Append(stdout, [kind |-> "error", what |-> "Error running git command"])
    /\ result' = CalledProcessError_result
    /\ pc' = "done"
    /\ UNCHANGED <<env, log_output, lines, i, locals>>

\* One turn of the loop over log_output.splitlines().
ParseLine ==
    /\ pc = "parse"
    /\ i <= Len(lines)
    /\ LET line == lines[i]
           r    == TryParse(line)
       IN  IF Strip(line) = <<>>
           THEN /\ pc' = "parse"
                /\ UNCHANGED <<parsed_commits, stdout, result>>
           ELSE IF r.raised = None
           THEN /\ parsed_commits' = Append(parsed_commits, r.value)
                /\ pc' = "parse"
                /\ UNCHANGED <<stdout, result>>
           ELSE IF except_catches(r.raised)
           THEN /\ stdout' = Append(stdout, [kind |-> "warning", line |-> line,
                                             error |-> r.raised.exc])
                /\ pc' = "parse"
                /\ UNCHANGED <<parsed_commits, result>>
           ELSE \* the exception reaches except Exception of the outer try
                /\ stdout' = Append(stdout, [kind |-> "error", what |-> "Unexpected error"])
                /\ result' = None
                /\ pc' = "done"
                /\ UNCHANGED parsed_commits
    /\ i' = i + 1
    /\ UNCHANGED <<env, git_calls, log_output, lines, commits_by_email,
                   commits_per_day, total_commits, num_days, num_weekdays,
                   avg_per_day, avg_per_weekday>>

\* After the loop: if not parsed_commits: print the warning, return None
EndParse ==
    /\ pc = "parse"
    /\ i > Len(lines)
    /\ IF parsed_commits = <<>>
       THEN /\ stdout' = Append(stdout, [kind |-> "warning", what |-> "No valid commits found"])
            /\ result' = None
            /\ pc' = "done"
       ELSE /\ pc' = "sort"
            /\ UNCHANGED <<stdout, result>>
    /\ UNCHANGED <<env, git_calls, log_output, lines, i, locals>>

\* parsed_commits.sort(key=lambda x: (x[0], x[1]))
Sort ==
    /\ pc = "sort"
    /\ parsed_commits' = sort(parsed_commits)
    /\ pc' = "group"
    /\ UNCHANGED <<env, git_calls, log_output, lines, i, commits_by_email,
                   commits_per_day, total_commits, num_days, num_weekdays,
                   avg_per_day, avg_per_weekday, stdout, result>>

\* The loop filling commits_by_email.
Group ==
    /\ pc = "group"
    /\ commits_by_email' = group_by_email(EmptyDict, parsed_commits)
    /\ pc' = "count"
    /\ UNCHANGED <<env, git_calls, log_output, lines, i, parsed_commits,
                   commits_per_day, total_commits, num_days, num_weekdays,
                   avg_per_day, avg_per_weekday, stdout, result>>

\* The loop filling commits_per_day.
Count ==
    /\ pc = "count"
    /\ commits_per_day' = count_per_day(EmptyDict, parsed_commits)
    /\ pc' = "report"
    /\ UNCHANGED <<env, git_calls, log_output, lines, i, parsed_commits,
                   commits_by_email, total_commits, num_days, num_weekdays,
                   avg_per_day, avg_per_weekday, stdout, result>>

\* The report: the committers in the order of their emails with their
\* commits, the two totals, the days in order with their counts.
Report ==
    /\ pc = "report"
    /\ LET emails == sorted(DOMAIN commits_by_email)
           total  == total_of(commits_by_email, emails)
       IN  /\ total_commits' = total
           /\ stdout' = stdout
                \o <<[kind |-> "heading"]>>
                \o committer_blocks(commits_by_email, emails)
                \o <<[kind |-> "total_commits", value |-> total],
                     [kind |-> "total_committers",
                      value |-> Cardinality(DOMAIN commits_by_email)]>>
                \o day_lines(commits_per_day, sorted(DOMAIN commits_per_day))
    /\ pc' = "averages"
    /\ UNCHANGED <<env, git_calls, log_output, lines, i, parsed_commits,
                   commits_by_email, commits_per_day, num_days, num_weekdays,
                   avg_per_day, avg_per_weekday, result>>

\* The average calculations and their two printed lines.
Averages ==
    /\ pc = "averages"
    /\ LET days         == Cardinality(DOMAIN commits_per_day)
           total        == sum_values(commits_per_day)
           weekday_days == {date \in DOMAIN commits_per_day :
                               strptime_weekday(date) < 5}
           weekdays     == Cardinality(weekday_days)
       IN  /\ num_days' = days
           /\ total_commits' = total
           /\ num_weekdays' = weekdays
           /\ avg_per_day' = average(total, days)
           /\ avg_per_weekday' = average(total, weekdays)
           /\ stdout' = Append(stdout,
                  [kind |-> "averages",
                   per_day |-> format_2f(average(total, days)),
                   per_weekday |-> format_2f(average(total, weekdays))])
    /\ pc' = "return"
    /\ UNCHANGED <<env, git_calls, log_output, lines, i, parsed_commits,
                   commits_by_email, commits_per_day, result>>

\* return parsed_commits
Return ==
    /\ pc = "return"
    /\ result' = List(parsed_commits)
    /\ pc' = "done"
    /\ UNCHANGED <<env, git_calls, log_output, lines, i, locals, stdout>>

Next ==
    \/ CheckPath
    \/ CheckGitDir
    \/ RunGitOk
    \/ RunGitFails
    \/ ParseLine
    \/ EndParse
    \/ Sort
    \/ Group
    \/ Count
    \/ Report
    \/ Averages
    \/ Return

Spec == Init /\ [][Next]_vars

----------------------------------------------------------------------------
(* What the properties speak of                                            *)

CountChar(s, c) == Cardinality({k \in 1..Len(s) : s[k] = c})

\* The text before the first delimiter of a line that has one.
BeforeFirstBar(line) == SubSeq(line, 1, Find(line, "|") - 1)

AfterFirstBar(line) == SubSeq(line, Find(line, "|") + 1, Len(line))

\* The text between the first and the second delimiter of a line that has two.
DateField(line) == BeforeFirstBar(AfterFirstBar(line))

\* The text after the second delimiter.
AfterSecondBar(line) == AfterFirstBar(AfterFirstBar(line))

NonEmpty(line) == \E k \in 1..Len(line) : line[k] # " "

\* A line with the three fields and a date that parses.
WellFormed(line) ==
    /\ CountChar(line, "|") >= 2
    /\ fromisoformat(ReplaceZ(DateField(line))) # ValueError

Malformed(line) == NonEmpty(line) /\ ~ WellFormed(line)

NumNonEmpty(ls) == Cardinality({k \in 1..Len(ls) : NonEmpty(ls[k])})

NumMalformed(ls) == Cardinality({k \in 1..Len(ls) : Malformed(ls[k])})

NumWellFormed(ls) == Cardinality({k \in 1..Len(ls) : WellFormed(ls[k])})

Returned == pc = "done" /\ result.type = "list"

Printed(kind) == {k \in 1..Len(stdout) : stdout[k].kind = kind}

\* The commit counts of the keys of commits_per_day that are Monday-Friday
\* days, summed, and the number of those keys.
WeekdayKeys == {day \in DOMAIN commits_per_day : strptime_weekday(day) < 5}

WeekdayCommits == sum_values([day \in WeekdayKeys |-> commits_per_day[day]])

----------------------------------------------------------------------------
(* C1 *)

\* C1: the weekday-only average is the sum of the counts of the Monday-Friday
\* keys of commits_per_day divided by the number of those keys, and 0 when
\* there is none; weekend commits are not in its numerator.
C1_WeekdayAverage ==
    Returned =>
        IF WeekdayKeys = {}
        THEN avg_per_weekday.num = 0
        ELSE avg_per_weekday.num * Cardinality(WeekdayKeys)
                = WeekdayCommits * avg_per_weekday.den

----------------------------------------------------------------------------
(* C2 *)

\* C2: when the git output holds a valid line, the list returned has as many
\* records as there are non-empty lines less the malformed ones.
C2_RecordCount ==
    pc = "done" /\ (\E k \in 1..Len(lines) : WellFormed(lines[k])) =>
        /\ result.type = "list"
        /\ Len(result.items) = NumNonEmpty(lines) - NumMalformed(lines)
        \* the same count when a line of whitespace is taken as a non-empty
        \* line that fails the field split
        /\ Len(result.items)
              = Cardinality({k \in 1..Len(lines) : lines[k] # <<>>})
                - Cardinality({k \in 1..Len(lines) :
                                  lines[k] # <<>> /\ ~ WellFormed(lines[k])})

\* A run that returned fewer records than the output has lines, with a
\* malformed line and a blank line among them.
C2_Witness ==
    /\ Returned
    /\ Len(lines) = 3
    /\ Len(result.items) = 1
    /\ NumMalformed(lines) = 1
    /\ \E k \in 1..Len(lines) : ~ NonEmpty(lines[k])

----------------------------------------------------------------------------
(* C3 *)

\* While the loop runs, after the line before i: every malformed line so far
\* has its warning, the last one printed if that line is malformed; the list
\* holds the valid lines so far and no other; nothing is returned and the
\* loop is still at its place.
C3_Loop ==
    pc = "parse" =>
        LET seen == SubSeq(lines, 1, i - 1)
        IN  /\ i <= Len(lines) + 1
            /\ result = Unset
            /\ Len(parsed_commits) = NumWellFormed(seen)
            /\ Len(stdout) = NumMalformed(seen)
            /\ \A k \in 1..Len(stdout) : stdout[k].kind = "warning"
            /\ i > 1 /\ Malformed(lines[i - 1]) =>
                  stdout[Len(stdout)].line = lines[i - 1]

\* At the end of a run whose output holds a valid line, the list, the
\* committer groups and the daily counts hold the valid lines and no other,
\* and every malformed line has its warning.
C3_Final ==
    pc = "done" /\ (\E k \in 1..Len(lines) : WellFormed(lines[k])) =>
        /\ result.type = "list"
        /\ Len(result.items) = NumWellFormed(lines)
        /\ total_of(commits_by_email, sorted(DOMAIN commits_by_email))
              = NumWellFormed(lines)
        /\ sum_values(commits_per_day) = NumWellFormed(lines)
        /\ \A r \in {result.items[k] : k \in 1..Len(result.items)} :
              \E k \in 1..Len(lines) :
                  WellFormed(lines[k]) /\ r[3] = Strip(AfterSecondBar(lines[k]))
        /\ Cardinality({k \in Printed("warning") : "line" \in DOMAIN stdout[k]})
              = NumMalformed(lines)

\* C3: a line that cannot be parsed yields a warning, adds nothing to the
\* list, the groups or the daily counts, and does not end the run: the lines
\* after it are processed and the valid ones reported.
C3_MalformedSkipped == C3_Loop /\ C3_Final

\* A run that returned a record parsed from a line that follows a malformed
\* line.
C3_Witness ==
    /\ Returned
    /\ \E k \in 1..Len(lines) : \E j \in (k + 1)..Len(lines) :
          Malformed(lines[k]) /\ WellFormed(lines[j])
    /\ Printed("warning") # {}

----------------------------------------------------------------------------
(* C4 *)

\* The records of the valid lines of ls, in the order of the lines.
RECURSIVE ValidRecords(_)
ValidRecords(ls) ==
    IF ls = <<>> THEN <<>>
    ELSE (IF WellFormed(ls[1]) THEN <<TryParse(ls[1]).value>> ELSE <<>>)
         \o ValidRecords(Tail(ls))

SameKey(r, x) == x[1] = r[1] /\ Timestamp(x[2]) = Timestamp(r[2])

\* The records of s that have the email and the instant of r, in their order
\* in s.
WithKeyOf(r, s) ==
    LET Test(x) == SameKey(r, x)
    IN  SelectSeq(s, Test)

\* s is non-decreasing in (email, instant).
NonDecreasing(s) ==
    \A k \in 1..(Len(s) - 1) :
        \/ StrLess(s[k][1], s[k + 1][1])
        \/ /\ s[k][1] = s[k + 1][1]
           /\ Timestamp(s[k][2]) <= Timestamp(s[k + 1][2])

\* s holds the records of o, each as often, and the records with one email
\* and one instant in the order they have in o.
StablePermutation(s, o) ==
    /\ Len(s) = Len(o)
    /\ \A k \in 1..Len(o) : WithKeyOf(o[k], s) = WithKeyOf(o[k], o)

\* C4: the list returned is a permutation of the valid parsed records,
\* non-decreasing in (email, instant), in which the records with equal email
\* and equal instant keep the order they have in the git log.
C4_SortedStable ==
    /\ pc = "group" =>
          /\ NonDecreasing(parsed_commits)
          /\ StablePermutation(parsed_commits, ValidRecords(lines))
    /\ Returned =>
          /\ NonDecreasing(result.items)
          /\ StablePermutation(result.items, ValidRecords(lines))

\* A run that returned its records in another order than the git log has
\* them, two of them with one email and one instant and different subjects.
C4_Witness ==
    /\ Returned
    /\ result.items # ValidRecords(lines)
    /\ \E k \in 1..Len(result.items) : \E j \in (k + 1)..Len(result.items) :
          /\ SameKey(result.items[k], result.items[j])
          /\ result.items[k][3] # result.items[j][3]

----------------------------------------------------------------------------
(* C5 *)

\* The (timestamp, title) pairs of the records of s whose email is e, in
\* their order in s.
RECURSIVE PairsOf(_, _)
PairsOf(e, s) ==
    IF s = <<>> THEN <<>>
    ELSE (IF s[1][1] = e THEN <<<<s[1][2], s[1][3]>>>> ELSE <<>>)
         \o PairsOf(e, Tail(s))

Emails(s) == {s[k][1] : k \in 1..Len(s)}

RECURSIVE SumOver(_, _)
SumOver(S, d) ==
    IF S = {} THEN 0
    ELSE LET k == CHOOSE k \in S : TRUE
         IN  Len(d[k]) + SumOver(S \ {k}, d)

\* C5: the committer groups partition the valid records: the group of an
\* email holds the records of that email and no other, no group is empty, the
\* group sizes add up to the number of valid records, which is the 'Total
\* commits' printed, and 'Total committers' is the number of distinct emails.
C5_Partition ==
    /\ pc = "count" \/ Returned =>
          /\ DOMAIN commits_by_email = Emails(parsed_commits)
          /\ \A e \in DOMAIN commits_by_email :
                /\ commits_by_email[e] = PairsOf(e, parsed_commits)
                /\ commits_by_email[e] # <<>>
          /\ SumOver(DOMAIN commits_by_email, commits_by_email)
                = NumWellFormed(lines)
    /\ pc = "averages" \/ Returned =>
          /\ \E k \in Printed("total_commits") :
                stdout[k].value = NumWellFormed(lines)
          /\ \E k \in Printed("total_committers") :
                stdout[k].value = Cardinality(Emails(ValidRecords(lines)))
          /\ Cardinality(Printed("total_commits")) = 1
          /\ Cardinality(Printed("total_committers")) = 1

\* A run that returned with two committers, one of them with two commits.
C5_Witness ==
    /\ Returned
    /\ Cardinality(DOMAIN commits_by_email) = 2
    /\ \E e \in DOMAIN commits_by_email : Len(commits_by_email[e]) = 2

----------------------------------------------------------------------------
(* C6 *)

----------------------------------------------------------------------------
(* C7 *)

NoReport == Printed("heading") = {} /\ Printed("averages") = {}

\* C7: git is never spawned twice; a missing path or a path without .git
\* gives None with no git subprocess and no report; once the path is valid
\* git is spawned once, and if it exits non-zero None is returned with no
\* report; every run ends in a return.
C7_GitOnce ==
    /\ git_calls <= 1
    /\ pc \in {"start", "check_git_dir", "run_git"} => git_calls = 0
    /\ pc \in {"parse", "sort", "group", "count", "report", "averages", "return"} =>
          git_calls = 1 /\ path_exists /\ has_git_dir
    /\ pc = "done" =>
          /\ result \in {None, List(parsed_commits)}
          /\ ~ (path_exists /\ has_git_dir) =>
                git_calls = 0 /\ result = None /\ NoReport /\ Len(stdout) = 1
          /\ path_exists /\ has_git_dir => git_calls = 1
          /\ (\E k \in Printed("error") : stdout[k].what = "Error running git command") =>
                result = None /\ NoReport /\ Len(stdout) = 1

\* A run on a directory without .git that has returned.
C7_Witness == pc = "done" /\ path_exists /\ ~ has_git_dir /\ result = None

----------------------------------------------------------------------------
(* C8 *)

NoValidCommits ==
    /\ pc = "done"
    /\ \E k \in Printed("warning") :
          "what" \in DOMAIN stdout[k] /\ stdout[k].what = "No valid commits found"

\* C8: when no line of the git output is valid, what get_commit_log returns
\* differs from what it returns when git exits non-zero.
C8_EmptyDistinct == NoValidCommits => result # CalledProcessError_result

----------------------------------------------------------------------------
(* C9 *)

\* The line the loop has just left has the three fields and a date that
\* parses.
JustParsed == pc = "parse" /\ i > 1 /\ WellFormed(lines[i - 1])

LastParsed == parsed_commits[Len(parsed_commits)]

\* C9, as claimed: a line with two or more delimiters is split at the first
\* two only; its record has the text before the first delimiter as email and
\* the text after the second, further delimiters included, verbatim as title.
C9_Verbatim ==
    JustParsed =>
        /\ Len(parsed_commits) = NumWellFormed(SubSeq(lines, 1, i - 1))
        /\ LastParsed[1] = BeforeFirstBar(lines[i - 1])
        /\ LastParsed[3] = AfterSecondBar(lines[i - 1])

\* C9, amended: a line with two or more delimiters and a date that parses is
\* never rejected; its record has as email the text before the first
\* delimiter and as title the text after the second, further delimiters
\* included, each with its leading and trailing whitespace removed, and as
\* timestamp the text between the two, parsed.
C9_Stripped ==
    JustParsed =>
        /\ Len(parsed_commits) = NumWellFormed(SubSeq(lines, 1, i - 1))
        /\ LastParsed[1] = Strip(BeforeFirstBar(lines[i - 1]))
        /\ LastParsed[3] = Strip(AfterSecondBar(lines[i - 1]))
        /\ Timestamp(LastParsed[2])
              = Timestamp(fromisoformat(ReplaceZ(DateField(lines[i - 1]))))

\* The loop has just parsed a line whose subject holds a delimiter, and the
\* title of its record holds it too.
C9_Witness ==
    /\ JustParsed
    /\ CountChar(lines[i - 1], "|") = 3
    /\ CountChar(LastParsed[3], "|") = 1

----------------------------------------------------------------------------
(* C10 *)

Ymd_2024_01_15 == <<"2", "0", "2", "4", "-", "0", "1", "-", "1", "5">>

Ymd_2024_07_15 == <<"2", "0", "2", "4", "-", "0", "7", "-", "1", "5">>

Ymd_2023_12_31 == <<"2", "0", "2", "3", "-", "1", "2", "-", "3", "1">>

Ymd_2024_01_01 == <<"2", "0", "2", "4", "-", "0", "1", "-", "0", "1">>

HasLine(line) == \E k \in 1..Len(lines) : lines[k] = line

\* print wrote a commit line with this date, time, AM or PM and zone.
ReportShows(ymd, ims, p, z) ==
    \E k \in Printed("commit") :
        /\ stdout[k].when.Ymd = ymd
        /\ stdout[k].when.IMS = ims
        /\ stdout[k].when.p = p
        /\ stdout[k].when.Z = z

\* The Pacific calendar day of a record: the UTC day of its instant shifted
\* by its offset, which is -8 h or -7 h.
PacificDay(r) ==
    LET c == CivilFromDays((Timestamp(r[2]) + r[2].utcoffset * 60) \div 86400)
    IN  D4(c.year) \o <<"-">> \o D2(c.month) \o <<"-">> \o D2(c.day)

\* C10: a commit is counted, and classified as weekday or weekend, under its
\* calendar day in US Pacific time: its instant is that of the date in the
\* log, shifted by -8 h (PST) or -7 h (PDT); 2024-01-15T20:00:00Z is reported
\* as 2024-01-15 12:00:00 PM PST, 2024-07-15T20:00:00Z as 2024-07-15 01:00:00
\* PM PDT, and a commit at 2024-01-01T03:00:00Z is counted under 2023-12-31.
C10_PacificDay ==
    /\ pc = "report" \/ Returned =>
          /\ \A k \in 1..Len(parsed_commits) :
                /\ parsed_commits[k][2].utcoffset \in {-480, -420}
                /\ parsed_commits[k][2].tzname
                      = (IF parsed_commits[k][2].utcoffset = -480
                         THEN "PST" ELSE "PDT")
                /\ \E j \in 1..Len(lines) :
                      /\ WellFormed(lines[j])
                      /\ Timestamp(parsed_commits[k][2])
                            = Timestamp(fromisoformat(ReplaceZ(DateField(lines[j]))))
          /\ DOMAIN commits_per_day
                = {PacificDay(parsed_commits[k]) : k \in 1..Len(parsed_commits)}
          /\ \A day \in DOMAIN commits_per_day :
                commits_per_day[day]
                   = Cardinality({k \in 1..Len(parsed_commits) :
                                     PacificDay(parsed_commits[k]) = day})
          /\ HasLine(LnNewYear) =>
                /\ Ymd_2023_12_31 \in DOMAIN commits_per_day
                /\ Ymd_2024_01_01 \notin DOMAIN commits_per_day
    /\ Returned =>
          /\ HasLine(LnJan15) =>
                ReportShows(Ymd_2024_01_15,
                            <<"1", "2", ":", "0", "0", ":", "0", "0">>, "PM", "PST")
          /\ HasLine(LnJul15) =>
                ReportShows(Ymd_2024_07_15,
                            <<"0", "1", ":", "0", "0", ":", "0", "0">>, "PM", "PDT")
    /\ Returned =>
          num_weekdays
             = Cardinality({PacificDay(parsed_commits[k]) :
                               k \in {j \in 1..Len(parsed_commits) :
                                         weekday(parsed_commits[j][2]) < 5}})

\* A run that returned the commits of 2024-01-15T20:00:00Z, of
\* 2024-07-15T20:00:00Z and of 2024-01-01T03:00:00Z, the last counted under
\* 2023-12-31.
C10_Witness ==
    /\ Returned
    /\ HasLine(LnJan15) /\ HasLine(LnJul15) /\ HasLine(LnNewYear)
    /\ commits_per_day[Ymd_2023_12_31] = 1
    /\ num_weekdays = 2

====
